---- MODULE Spec2Model ----
(***************************************************************************)
(* A model of the nexmark event generator (src/src/event.rs,               *)
(* src/src/utils.rs): the id spaces of persons and auctions, the seeded    *)
(* random field helpers, the construction of Person, Auction and Bid       *)
(* events from an event number, and the channel/URL table.                 *)
(*                                                                         *)
(* Unsigned arithmetic is computed over the integers: a negative value     *)
(* stands for a usize subtraction that went below zero (a panic in a       *)
(* debug build, a wrapped value in a release build).                       *)
(*                                                                         *)
(* The random source (rand::rngs::SmallRng) is a generator state           *)
(* [seed, pos]: the seed it was created from and the number of raw values  *)
(* it has produced.  What a draw returns is resolved in one of two ways,   *)
(* fixed by the variable draws: "any" (every value of the sampled range    *)
(* is a possible outcome) or "seeded" (the value is a function of the      *)
(* generator state, as for a real pseudo-random generator).                *)
(***************************************************************************)
EXTENDS Integers, Sequences, FiniteSets, TLC

VARIABLES
    cfg,    \* the GeneratorConfig shared by every call
    draws,  \* how draws are resolved: "any" or "seeded"
    call,   \* the operation last called, with its arguments
    ret,    \* what that call returned
    log,    \* the draws that call made, in order
    rng,    \* the state in which that call left the generator it used
    hist,   \* results of earlier calls, kept to compare repeated calls
    CHANNEL_URL_MAP,  \* the static channel/URL table
    cli     \* the command-line loop of main.rs: its position and locals

vars == <<cfg, draws, call, ret, log, rng, hist, CHANNEL_URL_MAP, cli>>

(***************************************************************************)
(* Bounds of the model.                                                    *)
(***************************************************************************)
MaxEpoch == 1        \* event numbers cover the epochs 0..MaxEpoch
MaxProportion == 2   \* each proportion ranges over 1..MaxProportion
MaxWindow == 2       \* active_people, in_flight_auctions in 0..MaxWindow
MaxLead == 1         \* person_id_lead, auction_id_lead in 0..MaxLead
MaxSize == 12        \* sizes handed to gen_next_extra on its own
MaxChannels == 6     \* entries of the channel/URL table (CHANNEL_NUMBER in the source)
MaxClock == 4        \* the wall clock runs over 0..MaxClock milliseconds
MaxNumber == 2       \* --number ranges over 1..MaxNumber
MaxOffset == 0       \* --offset ranges over 0..MaxOffset
MaxStep == 2         \* --step ranges over 0..MaxStep

(***************************************************************************)
(* Program constants.                                                      *)
(***************************************************************************)
HOT_SELLER_RATIO == 100
HOT_AUCTION_RATIO == 100
HOT_BIDDER_RATIO == 100
MIN_STRING_LENGTH == 3

\* Under "any", a range up to this width is drawn exhaustively: the
\* widest window of ids that next_id samples.
MaxDrawWidth == MaxWindow + MaxLead + 1

Min(a, b) == IF a <= b THEN a ELSE b
Max(a, b) == IF a >= b THEN a ELSE b

(***************************************************************************)
(* GeneratorConfig.  Its definition (config.rs) is not among the source    *)
(* files; the fields are the ones event.rs reads, and event_type and       *)
(* event_timestamp follow sections 3 and 4.1 of the specification.         *)
(***************************************************************************)
Proportions == 1..MaxProportion

GeneratorConfig(fid, pp, ap, bp, hot, window, lead, pad, delay) ==
    [ first_event_id |-> fid,
      first_person_id |-> 1000,
      first_auction_id |-> 1000,
      first_category_id |-> 10,
      person_proportion |-> pp,
      auction_proportion |-> ap,
      bid_proportion |-> bp,
      proportion_denominator |-> pp + ap + bp,
      hot_seller_ratio |-> hot,
      hot_auction_ratio |-> hot,
      hot_bidder_ratio |-> hot,
      hot_channel_ratio |-> hot,
      active_people |-> window,
      in_flight_auctions |-> window,
      person_id_lead |-> lead,
      auction_id_lead |-> lead,
      num_categories |-> 2,
      avg_person_byte_size |-> IF pad THEN 68 ELSE 0,
      avg_auction_byte_size |-> IF pad THEN 171 ELSE 0,
      avg_bid_byte_size |-> IF pad THEN 35 ELSE 0,
      base_time |-> 5000,
      inter_event_delay_us |-> delay,
      first_names |-> <<"peter", "vicky">>,
      last_names |-> <<"noris">>,
      us_cities |-> <<"cheyenne">>,
      us_states |-> <<"az">>,
      hot_channels |-> <<"Google">>,
      hot_urls |-> <<"https://www.nexmark.com/googl/item.htm?query=1">> ]

\* <<hot ratio, padding, delay>>: every draw takes the windowed path, no
\* padding and all events at the base time; or both paths, padding and
\* 0.4 ms between events
Profiles == {<<1, FALSE, 0>>, <<2, TRUE, 400>>}

\* Configurations that differ in the event id offset and the proportions.
ProportionConfigs ==
    { GeneratorConfig(fid, pp, ap, bp, 2, MaxWindow, MaxLead, TRUE, 400) :
        fid \in {0, 1}, pp \in Proportions, ap \in Proportions, bp \in {1, 2} }

Configs ==
    ProportionConfigs \cup
    { GeneratorConfig(0, pp, ap, 1, p[1], window, lead, p[2], p[3]) :
        pp \in Proportions, ap \in Proportions,
        window \in 0..MaxWindow, lead \in 0..MaxLead, p \in Profiles }

\* GeneratorConfig::event_type (section 4.1)
event_type(nex, event_number) ==
    LET offset == event_number % nex.proportion_denominator
    IN  IF offset < nex.person_proportion THEN "Person"
        ELSE IF offset < nex.person_proportion + nex.auction_proportion THEN "Auction"
        ELSE "Bid"

\* GeneratorConfig::event_timestamp (section 4.1): the base time plus a
\* delay that grows with the event number, in milliseconds.
event_timestamp(nex, event_number) ==
    nex.base_time + (event_number * nex.inter_event_delay_us) \div 1000

(***************************************************************************)
(* Identity spaces (event.rs).                                             *)
(***************************************************************************)
\* mutant: the in-epoch offset is not clamped to person_proportion - 1
Person_last_id_unclamped(event_id, nex) ==
    LET epoch == event_id \div nex.proportion_denominator
        offset == event_id % nex.proportion_denominator
    IN  epoch * nex.person_proportion + offset

\* Person::last_id
Person_last_id(event_id, nex) ==
    LET epoch == event_id \div nex.proportion_denominator
        offset == Min(event_id % nex.proportion_denominator, nex.person_proportion - 1)
    IN  epoch * nex.person_proportion + offset

\* mutant: an offset in the bid sub-range is not clamped
Auction_last_id_unclamped(event_id, nex) ==
    LET epoch == event_id \div nex.proportion_denominator
        offset == event_id % nex.proportion_denominator
    IN  IF offset < nex.person_proportion
        THEN (epoch - 1) * nex.auction_proportion + (nex.auction_proportion - 1)
        ELSE epoch * nex.auction_proportion + (offset - nex.person_proportion)

\* Auction::last_id.  With epoch = 0 the first branch takes epoch below
\* zero, and the result is negative.
Auction_last_id(event_id, nex) ==
    LET epoch == event_id \div nex.proportion_denominator
        offset == event_id % nex.proportion_denominator
    IN  IF offset < nex.person_proportion
        THEN (epoch - 1) * nex.auction_proportion + (nex.auction_proportion - 1)
        ELSE IF nex.person_proportion + nex.auction_proportion <= offset
        THEN epoch * nex.auction_proportion + (nex.auction_proportion - 1)
        ELSE epoch * nex.auction_proportion + (offset - nex.person_proportion)

(***************************************************************************)
(* The random source and the random field helpers (utils.rs).              *)
(*                                                                         *)
(* A helper takes a generator context g = [rng, log, panic, mode] and      *)
(* returns the set of its possible outcomes [v, g]: the value and the      *)
(* context after the call.  g.mode says how the draws of this generator    *)
(* are resolved.  A panic stops the call: once g.panic is set, helpers     *)
(* draw nothing more and the caller returns the panic.                     *)
(***************************************************************************)
NoPanic == ""

\* mutant: the generator is not seeded afresh but continues the state the
\* previous call left behind
seed_from_u64_shared(seed) == rng

\* SmallRng::seed_from_u64
seed_from_u64(seed) == [seed |-> seed, pos |-> 0]

NewGen(seed, mode) ==
    [rng |-> seed_from_u64(seed), log |-> <<>>, panic |-> NoPanic, mode |-> mode]

\* The raw value the generator yields in state r, when draws = "seeded".
NextRaw(r) == ((r.seed + 1) * 7 + r.pos * 13 + r.seed * r.pos * 5 + 3) % 64

Advance(r, n) == [r EXCEPT !.pos = @ + n]

\* The values a draw from lo..hi (hi excluded) may return.  Under "any" a
\* range wider than MaxDrawWidth is represented by its two ends.
Outcomes(g, lo, hi) ==
    IF g.mode = "any"
    THEN IF hi - lo <= MaxDrawWidth THEN lo..(hi - 1) ELSE {lo, hi - 1}
    ELSE {lo + (NextRaw(g.rng) % (hi - lo))}

Drawn(g, at, n, lo, hi, v) ==
    [ rng |-> Advance(g.rng, n),
      log |-> Append(g.log, [at |-> at, pos |-> g.rng.pos, n |-> n,
                             lo |-> lo, hi |-> hi, v |-> v]),
      panic |-> NoPanic,
      mode |-> g.mode ]

\* Rng::gen_range(lo..hi): panics on an empty range
gen_range(g, at, lo, hi) ==
    IF g.panic # NoPanic THEN {[v |-> lo, g |-> g]}
    ELSE IF hi <= lo
    THEN {[v |-> lo, g |-> [g EXCEPT !.panic = "cannot sample empty range: " \o at]]}
    ELSE {[v |-> x, g |-> Drawn(g, at, 1, lo, hi, x)] : x \in Outcomes(g, lo, hi)}

\* A generated string is kept as its length and the generator state its
\* letters were drawn from; the empty string has no origin.
String_new == [len |-> 0, from |-> <<>>]

\* NexmarkRng::gen_exact_string: one draw of a letter per character
gen_exact_string(g, length) ==
    IF g.panic # NoPanic THEN {[v |-> String_new, g |-> g]}
    ELSE IF length = 0 THEN {[v |-> String_new, g |-> g]}
    ELSE {[v |-> [len |-> length, from |-> g.rng],
           g |-> Drawn(g, "gen_exact_string", length, 0, 26, length)]}

\* NexmarkRng::gen_string
gen_string(g, max) == gen_exact_string(g, max)

\* mutant: the minimum size is not lowered by delta
gen_next_extra_no_min(g, current_size, desired_average_size) ==
    IF current_size > desired_average_size THEN {[v |-> String_new, g |-> g]}
    ELSE LET remaining == desired_average_size - current_size
             delta == (remaining + 2) \div 5
         IN  IF delta = 0 THEN gen_exact_string(g, remaining)
             ELSE UNION { gen_exact_string(d.g, remaining + d.v) :
                            d \in gen_range(g, "gen_next_extra", 0, 2 * delta) }

\* NexmarkRng::gen_next_extra
gen_next_extra(g, current_size, desired_average_size) ==
    IF current_size > desired_average_size THEN {[v |-> String_new, g |-> g]}
    ELSE LET remaining == desired_average_size - current_size
             delta == (remaining + 2) \div 5
             min_size == remaining - delta
         IN  IF delta = 0 THEN gen_exact_string(g, min_size)
             ELSE UNION { gen_exact_string(d.g, min_size + d.v) :
                            d \in gen_range(g, "gen_next_extra", 0, 2 * delta) }

\* The exponents k of the prices 10^(k/6 * 6) * 100 that gen_price returns
\* for the draws u = k/6 of [0, 1).
PriceSteps == 6
Pow10(k) == CASE k = 0 -> 1 [] k = 1 -> 10 [] k = 2 -> 100 [] k = 3 -> 1000
              [] k = 4 -> 10000 [] k = 5 -> 100000

\* NexmarkRng::gen_price: round(10^(u * 6) * 100) for one draw u of [0, 1);
\* under "any" the least and the greatest u
gen_price(g) ==
    IF g.panic # NoPanic THEN {[v |-> 0, g |-> g]}
    ELSE {[v |-> Pow10(k) * 100, g |-> Drawn(g, "gen_price", 1, 0, PriceSteps, k)] :
            k \in IF g.mode = "any" THEN {0, PriceSteps - 1} ELSE Outcomes(g, 0, PriceSteps)}

\* A usize subtraction whose result x is below zero panics.
Checked(g, x) ==
    IF g.panic = NoPanic /\ x < 0
    THEN [g EXCEPT !.panic = "attempt to subtract with overflow"]
    ELSE g

(***************************************************************************)
(* The channel/URL table (utils.rs).  Characters are ASCII codes.          *)
(***************************************************************************)
RECURSIVE gen_chars(_, _, _)
\* the closure of gen_string_with_delimiter, applied to n positions
gen_chars(g, n, delimiter) ==
    IF n = 0 THEN {[v |-> <<>>, g |-> g]}
    ELSE UNION { IF d.v = 0
                 THEN {[v |-> <<delimiter>> \o r.v, g |-> r.g] :
                         r \in gen_chars(d.g, n - 1, delimiter)}
                 ELSE UNION { {[v |-> <<c.v>> \o r.v, g |-> r.g] :
                                 r \in gen_chars(c.g, n - 1, delimiter)} :
                              c \in gen_range(d.g, "letter", 97, 123) } :
                 d \in gen_range(g, "delimiter", 0, 13) }

\* NexmarkRng::gen_string_with_delimiter
gen_string_with_delimiter(g, max, delimiter) ==
    UNION { gen_chars(len.g, len.v, delimiter) :
              len \in gen_range(g, "gen_string_with_delimiter", MIN_STRING_LENGTH, max) }

\* get_base_url: the three generated path segments of
\* https://www.nexmark.com/{}/{}/{}/item.htm?query=1
get_base_url(seed) ==
    LET S0 == gen_string_with_delimiter(NewGen(seed, "seeded"), 5, 95)
        S1 == UNION { {<<id0.v, id1>> : id1 \in gen_string_with_delimiter(id0.g, 5, 95)} :
                        id0 \in S0 }
        S2 == UNION { {<<p[1], p[2].v, id2.v>> :
                         id2 \in gen_string_with_delimiter(p[2].g, 5, 95)} : p \in S1 }
    IN  CHOOSE url \in S2 : TRUE

RECURSIVE rev_bits(_, _, _)
rev_bits(x, n, acc) ==
    IF n = 0 THEN acc ELSE rev_bits(x \div 2, n - 1, acc * 2 + (x % 2))

\* i64::abs((i as i32).reverse_bits() as i64), as the two 16-bit halves
\* <<high, low>> of the result (2^31, the result for i = 1, has high = 32768)
reverse_bits_abs(i) ==
    LET high == rev_bits(i % 65536, 16, 0)
        low == rev_bits((i \div 65536) % 65536, 16, 0)
    IN  IF high < 32768 THEN <<high, low>>
        ELSE IF low = 0 THEN <<65536 - high, 0>>
        ELSE <<65535 - high, 65536 - low>>

RECURSIVE digits(_, _)
\* the decimal digits (ASCII codes) of the number high * 65536 + low
digits(high, low) ==
    LET t == (high % 10) * 65536 + low
        qh == high \div 10
        ql == t \div 10
        last == <<48 + (t % 10)>>
    IN  IF qh = 0 /\ ql = 0 THEN last
        ELSE digits(qh + (ql \div 65536), ql % 65536) \o last

to_string(n) == digits(n \div 65536, n % 65536)

\* one iteration of the loop of build_channel_url_map: entry i
channel_url(i) ==
    LET base == get_base_url(i)
        r == CHOOSE d \in gen_range(NewGen(i, "seeded"), "channel_id", 0, 10) : TRUE
        id == reverse_bits_abs(i)
    IN  [ channel |-> <<"channel-", to_string(i)>>,
          url |-> IF r.v > 0
                  THEN [base |-> base, channel_id |-> <<"&channel_id=", digits(id[1], id[2])>>]
                  ELSE [base |-> base, channel_id |-> <<>>] ]

\* mutant: entry i is derived from its distance to the end of the table
build_channel_url_map_from_end(channel_number) ==
    [k \in 1..channel_number |->
        [channel_url(channel_number - k) EXCEPT !.channel = <<"channel-", to_string(k - 1)>>]]

\* build_channel_url_map: entry i of the table is element i + 1 of the
\* sequence
build_channel_url_map(channel_number) ==
    [k \in 1..channel_number |-> channel_url(k - 1)]

(***************************************************************************)
(* Sampling of reference ids (event.rs).                                   *)
(***************************************************************************)
\* Person::next_id
Person_next_id(event_id, g, nex) ==
    LET people == Person_last_id(event_id, nex) + 1
        active == Min(people, nex.active_people)
    IN  {[v |-> people - active + d.v, g |-> d.g] :
           d \in gen_range(g, "Person::next_id", 0, active + nex.person_id_lead)}

\* Auction::next_id
Auction_next_id(event_id, g, nex) ==
    LET max_auction == Auction_last_id(event_id, nex)
        min_auction == IF max_auction < nex.in_flight_auctions
                       THEN 0 ELSE max_auction - nex.in_flight_auctions
    IN  {[v |-> min_auction + d.v, g |-> d.g] :
           d \in gen_range(Checked(g, max_auction), "Auction::next_id",
                           0, max_auction - min_auction + 1 + nex.auction_id_lead)}

\* mutant: the sampled duration starts at 0
Auction_next_length_from_zero(event_number, g, time, nex) ==
    LET events_for_auctions ==
            (nex.in_flight_auctions * nex.proportion_denominator) \div nex.auction_proportion
        future_auction == event_timestamp(nex, event_number + events_for_auctions)
        horizon == future_auction - time
    IN  {[v |-> d.v, g |-> d.g] :
           d \in gen_range(Checked(g, horizon), "Auction::next_length",
                           0, Max(horizon * 2, 1))}

\* next_length drawing its duration from a generator of its own, leaving the
\* caller's generator where it was
Auction_next_length_own_rng(event_number, g, time, nex) ==
    LET events_for_auctions ==
            (nex.in_flight_auctions * nex.proportion_denominator) \div nex.auction_proportion
        future_auction == event_timestamp(nex, event_number + events_for_auctions)
        horizon == future_auction - time
        own == [NewGen(event_number, g.mode) EXCEPT !.panic = Checked(g, horizon).panic]
    IN  {[v |-> 1 + d.v, g |-> [g EXCEPT !.panic = d.g.panic]] :
           d \in gen_range(own, "Auction::next_length", 0, Max(horizon * 2, 1))}

\* Auction::next_length
Auction_next_length(event_number, g, time, nex) ==
    LET events_for_auctions ==
            (nex.in_flight_auctions * nex.proportion_denominator) \div nex.auction_proportion
        future_auction == event_timestamp(nex, event_number + events_for_auctions)
        horizon == future_auction - time
    IN  {[v |-> 1 + d.v, g |-> d.g] :
           d \in gen_range(Checked(g, horizon), "Auction::next_length",
                           0, Max(horizon * 2, 1))}

\* SliceRandom::choose(..).unwrap(): an element at a drawn index; the
\* unwrap panics on an empty slice
choose(g, at, slice) ==
    IF g.panic # NoPanic THEN {[v |-> "", g |-> g]}
    ELSE IF Len(slice) = 0
    THEN {[v |-> "", g |-> [g EXCEPT !.panic = "unwrap on None: " \o at]]}
    ELSE {[v |-> slice[d.v + 1], g |-> d.g] : d \in gen_range(g, at, 0, Len(slice))}

(***************************************************************************)
(* Construction of events (event.rs).  A constructor returns the set of    *)
(* its outcomes [v, g].  The fields are computed in the order of the       *)
(* source: S is the set of partial results so far, and Then(S, name, F)    *)
(* extends each with the field name drawn by F from its generator.         *)
(***************************************************************************)
Then(S, name, F(_)) ==
    UNION { { (name :> d.v) @@ ("g" :> d.g) @@ s : d \in F(s) } : s \in S }

Panic(msg) == [kind |-> "Panic", msg |-> msg]

Done(S, Build(_)) ==
    { [v |-> IF s.g.panic # NoPanic THEN Panic(s.g.panic) ELSE Build(s), g |-> s.g] : s \in S }

\* Person::new
Person_new(id, time, nex, mode) ==
    LET pid == Person_last_id(id, nex) + nex.first_person_id
        S0 == {[g |-> NewGen(id, mode)]}
        S1 == Then(S0, "first", LAMBDA s : choose(s.g, "first_names", nex.first_names))
        S2 == Then(S1, "last", LAMBDA s : choose(s.g, "last_names", nex.last_names))
        S3 == Then(S2, "user", LAMBDA s : gen_string(s.g, 7))
        S4 == Then(S3, "domain", LAMBDA s : gen_string(s.g, 5))
        S5 == Then(S4, "cc1", LAMBDA s : gen_range(s.g, "credit_card", 0, 10000))
        S6 == Then(S5, "cc2", LAMBDA s : gen_range(s.g, "credit_card", 0, 10000))
        S7 == Then(S6, "cc3", LAMBDA s : gen_range(s.g, "credit_card", 0, 10000))
        S8 == Then(S7, "cc4", LAMBDA s : gen_range(s.g, "credit_card", 0, 10000))
        S9 == Then(S8, "city", LAMBDA s : choose(s.g, "us_cities", nex.us_cities))
        S10 == Then(S9, "state", LAMBDA s : choose(s.g, "us_states", nex.us_states))
        name(s) == s.first \o " " \o s.last
        email_len(s) == s.user.len + 1 + s.domain.len + 4
        current_size(s) == 8 + Len(name(s)) + email_len(s) + 19 + Len(s.city) + Len(s.state)
        S11 == Then(S10, "extra",
                    LAMBDA s : gen_next_extra(s.g, current_size(s), nex.avg_person_byte_size))
    IN  Done(S11, LAMBDA s :
            [ kind |-> "Person",
              id |-> pid,
              name |-> name(s),
              email_address |-> <<s.user, "@", s.domain, ".com">>,
              credit_card |-> <<s.cc1, s.cc2, s.cc3, s.cc4>>,
              city |-> s.city,
              state |-> s.state,
              date_time |-> time,
              extra |-> s.extra ])

\* Auction::new
Auction_new(event_number, event_id, time, nex, mode) ==
    LET last == Auction_last_id(event_id, nex)
        S0 == {[g |-> Checked(NewGen(event_id, mode), last)]}
        S1 == Then(S0, "item_name", LAMBDA s : gen_string(s.g, 20))
        S2 == Then(S1, "description", LAMBDA s : gen_string(s.g, 100))
        S3 == Then(S2, "initial_bid", LAMBDA s : gen_price(s.g))
        S4 == Then(S3, "price", LAMBDA s : gen_price(s.g))
        S5 == Then(S4, "length",
                   LAMBDA s : Auction_next_length(event_number, s.g, time, nex))
        S6 == Then(S5, "hot", LAMBDA s : gen_range(s.g, "hot_seller", 0, nex.hot_seller_ratio))
        S7 == Then(S6, "seller",
                   LAMBDA s : IF s.hot > 0
                              THEN {[v |-> (Person_last_id(event_id, nex) \div HOT_SELLER_RATIO)
                                             * HOT_SELLER_RATIO,
                                     g |-> s.g]}
                              ELSE Person_next_id(event_id, s.g, nex))
        S8 == Then(S7, "category", LAMBDA s : gen_range(s.g, "category", 0, nex.num_categories))
        current_size(s) == 8 + s.item_name.len + s.description.len + 8 + 8 + 8 + 8 + 8
        S9 == Then(S8, "extra",
                   LAMBDA s : gen_next_extra(s.g, current_size(s), nex.avg_auction_byte_size))
    IN  Done(S9, LAMBDA s :
            [ kind |-> "Auction",
              id |-> last + nex.first_auction_id,
              item_name |-> s.item_name,
              description |-> s.description,
              initial_bid |-> s.initial_bid,
              reserve |-> s.initial_bid + s.price,
              date_time |-> time,
              expires |-> time + s.length,
              seller |-> s.seller + nex.first_person_id,
              category |-> nex.first_category_id + s.category,
              extra |-> s.extra ])

\* Bid::new
Bid_new(event_id, time, nex, mode, channel_url_map) ==
    LET S0 == {[g |-> NewGen(event_id, mode)]}
        S1 == Then(S0, "hot_auction",
                   LAMBDA s : gen_range(s.g, "hot_auction", 0, nex.hot_auction_ratio))
        S2 == Then(S1, "auction",
                   LAMBDA s : IF 0 < s.hot_auction
                              THEN {[v |-> (Auction_last_id(event_id, nex) \div HOT_AUCTION_RATIO)
                                             * HOT_AUCTION_RATIO,
                                     g |-> Checked(s.g, Auction_last_id(event_id, nex))]}
                              ELSE Auction_next_id(event_id, s.g, nex))
        S3 == Then(S2, "hot_bidder",
                   LAMBDA s : gen_range(s.g, "hot_bidder", 0, nex.hot_bidder_ratio))
        S4 == Then(S3, "bidder",
                   LAMBDA s : IF 0 < s.hot_bidder
                              THEN {[v |-> (Person_last_id(event_id, nex) \div HOT_BIDDER_RATIO)
                                             * HOT_BIDDER_RATIO + 1,
                                     g |-> s.g]}
                              ELSE Person_next_id(event_id, s.g, nex))
        S5 == Then(S4, "price", LAMBDA s : gen_price(s.g))
        S6 == Then(S5, "hot_channel",
                   LAMBDA s : gen_range(s.g, "hot_channel", 0, nex.hot_channel_ratio))
        S7 == Then(S6, "source",
                   LAMBDA s : IF s.hot_channel > 0
                              THEN {[v |-> [channel |-> nex.hot_channels[d.v + 1],
                                            url |-> nex.hot_urls[d.v + 1]],
                                     g |-> d.g] :
                                      d \in gen_range(s.g, "hot_channels", 0,
                                                      Len(nex.hot_channels))}
                              ELSE choose(s.g, "CHANNEL_URL_MAP", channel_url_map))
        current_size == 8 + 8 + 8 + 8
        S8 == Then(S7, "extra",
                   LAMBDA s : gen_next_extra(s.g, current_size, nex.avg_bid_byte_size))
    IN  Done(S8, LAMBDA s :
            [ kind |-> "Bid",
              auction |-> s.auction + nex.first_auction_id,
              bidder |-> s.bidder + nex.first_person_id,
              price |-> s.price,
              date_time |-> time,
              channel |-> s.source.channel,
              url |-> s.source.url,
              extra |-> s.extra ])

\* Event::new
Event_new(event_number, nex, mode, channel_url_map) ==
    LET id == nex.first_event_id + event_number
        timestamp == event_timestamp(nex, event_number)
        type == event_type(nex, event_number)
    IN  IF type = "Person" THEN Person_new(id, timestamp, nex, mode)
        ELSE IF type = "Auction" THEN Auction_new(event_number, id, timestamp, nex, mode)
        ELSE Bid_new(id, timestamp, nex, mode, channel_url_map)

(***************************************************************************)
(* The state machine.  A call is one step: it records the operation, its   *)
(* result, the draws it made and the generator state it left.              *)
(***************************************************************************)
DefaultConfig == GeneratorConfig(0, 1, 1, 1, 2, MaxWindow, MaxLead, TRUE, 400)

\* The event numbers of the model: the epochs 0..MaxEpoch, and the epoch
\* in which the ids pass the first block of hot ids.
Epochs == (0..MaxEpoch) \cup {HOT_BIDDER_RATIO}
EventNumbers(nex) ==
    { epoch * nex.proportion_denominator + offset :
        epoch \in Epochs, offset \in 0..(nex.proportion_denominator - 1) }

NoCall == [op |-> "none"]

\* main before Args::parse: the wall clock reads 0
NotStarted ==
    [ pc |-> "start",
      opts |-> [type_ |-> "All", number |-> 0, offset |-> 0, step |-> 1, no_wait |-> FALSE],
      iter |-> [offset |-> 0, step |-> 1, type_filter |-> "All"],
      taken |-> 0,
      now |-> 0, start_time |-> 0, start_ts |-> 0,
      event |-> [event_number |-> 0, timestamp |-> 0],
      checked_at |-> 0, t |-> 0, until |-> 0, slept |-> FALSE,
      yielded |-> <<>>, printed |-> <<>> ]
NoResult == [kind |-> "None"]

InitWith(configs, mode) ==
    /\ cfg \in configs
    /\ draws = mode
    /\ call = NoCall
    /\ ret = NoResult
    /\ log = <<>>
    /\ rng = [seed |-> 0, pos |-> 0]
    /\ hist = <<>>
    /\ CHANNEL_URL_MAP = build_channel_url_map(MaxChannels)
    /\ cli = NotStarted

\* Event::new(event_number, cfg).  With seeded draws, calls follow one
\* another in any order of event numbers; hist remembers the first event
\* produced and whether another event number was asked for since.  With
\* every outcome drawn, a behaviour is one call.
EventNew(event_number) ==
    /\ draws = "any" => call = NoCall
    /\ \E r \in Event_new(event_number, cfg, draws, CHANNEL_URL_MAP) :
        /\ call' = [op |-> "Event::new", event_number |-> event_number]
        /\ ret' = r.v
        /\ log' = r.g.log
        /\ rng' = r.g.rng
        /\ hist' = IF draws # "seeded" THEN hist
                   ELSE IF hist = <<>>
                   THEN <<[event_number |-> event_number, event |-> r.v, between |-> FALSE]>>
                   ELSE IF event_number # hist[1].event_number
                   THEN <<[hist[1] EXCEPT !.between = TRUE]>>
                   ELSE hist
        /\ UNCHANGED <<cli, cfg, draws, CHANNEL_URL_MAP>>

\* Person::last_id(event_id, cfg)
CallPersonLastId(event_id) ==
    /\ call' = [op |-> "Person::last_id", event_id |-> event_id]
    /\ ret' = Person_last_id(event_id, cfg)
    /\ UNCHANGED <<cli, cfg, draws, log, rng, hist, CHANNEL_URL_MAP>>

\* Auction::last_id(event_id, cfg)
CallAuctionLastId(event_id) ==
    /\ call' = [op |-> "Auction::last_id", event_id |-> event_id]
    /\ ret' = Auction_last_id(event_id, cfg)
    /\ UNCHANGED <<cli, cfg, draws, log, rng, hist, CHANNEL_URL_MAP>>

\* rng.gen_next_extra(current_size, desired_average_size) on a generator
\* seeded with seed
CallGenNextExtra(seed, current_size, desired_average_size) ==
    \E r \in gen_next_extra(NewGen(seed, draws), current_size, desired_average_size) :
        /\ call' = [op |-> "gen_next_extra", current_size |-> current_size,
                    desired_average_size |-> desired_average_size]
        /\ ret' = r.v
        /\ log' = r.g.log
        /\ rng' = r.g.rng
        /\ UNCHANGED <<cli, cfg, draws, hist, CHANNEL_URL_MAP>>

\* build_channel_url_map(channel_number); hist keeps the two tables built
\* before this one, the later first
BuildChannelUrlMap(channel_number) ==
    /\ call' = [op |-> "build_channel_url_map", channel_number |-> channel_number]
    /\ ret' = build_channel_url_map(channel_number)
    /\ hist' = IF call = NoCall THEN <<>>
               ELSE <<ret>> \o (IF hist = <<>> THEN <<>> ELSE <<hist[1]>>)
    /\ UNCHANGED <<cli, cfg, draws, log, rng, CHANNEL_URL_MAP>>

NextEvents == \E n \in EventNumbers(cfg) : EventNew(n)
NextIds ==
    \E e \in EventNumbers(cfg) : CallPersonLastId(e) \/ CallAuctionLastId(e)
NextExtra == \E seed \in {0, 1}, cs \in 0..MaxSize, t \in 0..MaxSize : CallGenNextExtra(seed, cs, t)
NextTable == \E n \in 0..MaxChannels : BuildChannelUrlMap(n)

\* events, every outcome of every draw
Spec == InitWith(Configs, "any") /\ [][NextEvents]_vars
\* events, draws resolved by the seeded generator
SpecSeeded == InitWith(ProportionConfigs, "seeded") /\ [][NextEvents]_vars
\* the id spaces on their own
SpecIds == InitWith(ProportionConfigs, "any") /\ [][NextIds]_vars
\* the padding on its own
SpecExtra == InitWith({DefaultConfig}, "any") /\ [][NextExtra]_vars
\* the channel/URL table
SpecTable == InitWith({DefaultConfig}, "seeded") /\ [][NextTable]_vars

(***************************************************************************)
(* The command-line loop (main.rs).  EventGenerator is defined outside     *)
(* the files modelled here; it is the lazy sequence of section 6 of the    *)
(* specification: events from a starting offset, by a stride, filtered by  *)
(* kind.  The wall clock (Instant) counts milliseconds.                    *)
(***************************************************************************)
\* The configurations the generator of the command line runs with: 0.4 ms
\* or 2.5 ms between events.
CliConfigs ==
    { GeneratorConfig(0, 1, 1, 1, 2, MaxWindow, MaxLead, TRUE, delay) : delay \in {400, 2500} }

Types == {"All", "Person", "Auction", "Bid"}

\* EventGenerator::timestamp: the timestamp of the event at the offset
EventGenerator_timestamp(iter) == event_timestamp(cfg, iter.offset)

\* EventGenerator::next: the strides after which the generator is at an
\* event number of the kind it filters; the kinds of the event numbers it
\* visits repeat after proportion_denominator strides
Strides(iter) ==
    { k \in 0..(cfg.proportion_denominator - 1) :
        \/ iter.type_filter = "All"
        \/ event_type(cfg, iter.offset + k * iter.step) = iter.type_filter }

\* Event::timestamp
Event_timestamp(event) == IF event.kind = "Panic" THEN 0 ELSE event.date_time

\* Args::parse to iter.timestamp(): the options, the generator, the start
\* of the wall clock and the timestamp of the first offset
Start(type_, number, offset, step, no_wait) ==
    /\ cli.pc = "start"
    /\ LET iter == [offset |-> offset, step |-> step, type_filter |-> type_]
       IN  cli' = [cli EXCEPT
                     !.pc = "next",
                     !.opts = [type_ |-> type_, number |-> number, offset |-> offset,
                               step |-> step, no_wait |-> no_wait],
                     !.iter = iter,
                     !.start_time = cli.now,
                     !.start_ts = EventGenerator_timestamp(iter)]
    /\ UNCHANGED <<cfg, draws, call, ret, log, rng, hist, CHANNEL_URL_MAP>>

\* iter.take(number).next(): the loop ends after number events; else the
\* generator moves to the next event number of the filtered kind, builds
\* its event and steps past it.  With no such event number it never returns.
IterNext ==
    /\ cli.pc = "next"
    /\ IF cli.taken = cli.opts.number
       THEN /\ cli' = [cli EXCEPT !.pc = "done"]
            /\ UNCHANGED <<call, ret, log, rng>>
       ELSE IF Strides(cli.iter) = {}
       THEN /\ cli' = [cli EXCEPT !.pc = "spin"]
            /\ UNCHANGED <<call, ret, log, rng>>
       ELSE LET k == CHOOSE x \in Strides(cli.iter) : \A y \in Strides(cli.iter) : x <= y
                n == cli.iter.offset + k * cli.iter.step
            IN  \E r \in Event_new(n, cfg, draws, CHANNEL_URL_MAP) :
                  /\ call' = [op |-> "Event::new", event_number |-> n]
                  /\ ret' = r.v
                  /\ log' = r.g.log
                  /\ rng' = r.g.rng
                  /\ cli' = IF r.v.kind = "Panic" THEN [cli EXCEPT !.pc = "panic"]
                            ELSE [cli EXCEPT
                                    !.pc = "pace",
                                    !.iter.offset = n + cli.iter.step,
                                    !.taken = @ + 1,
                                    !.event = [event_number |-> n,
                                               timestamp |-> Event_timestamp(r.v)],
                                    !.slept = FALSE,
                                    !.yielded = Append(@, n)]
    /\ UNCHANGED <<cfg, draws, hist, CHANNEL_URL_MAP>>

\* the loop going on to println without a look at the clock
Pace_no_sleep ==
    /\ cli.pc = "pace"
    /\ cli' = [cli EXCEPT !.pc = "print", !.checked_at = cli.now]
    /\ UNCHANGED <<cfg, draws, call, ret, log, rng, hist, CHANNEL_URL_MAP>>

\* if !opts.no_wait: emit_time, and emit_time.checked_duration_since(now),
\* which is Some(t) unless emit_time is earlier than now
Pace ==
    /\ cli.pc = "pace"
    /\ IF cli.opts.no_wait THEN cli' = [cli EXCEPT !.pc = "print"]
       ELSE LET millis == cli.event.timestamp - cli.start_ts
                emit_time == cli.start_time + millis
            IN  IF millis < 0 THEN cli' = [cli EXCEPT !.pc = "panic"]
                ELSE IF emit_time >= cli.now
                THEN cli' = [cli EXCEPT !.pc = "sleep", !.checked_at = cli.now,
                                        !.t = emit_time - cli.now]
                ELSE cli' = [cli EXCEPT !.pc = "print", !.checked_at = cli.now]
    /\ UNCHANGED <<cfg, draws, call, ret, log, rng, hist, CHANNEL_URL_MAP>>

\* std::thread::sleep(t) called: the thread is suspended for t at least
Sleep ==
    /\ cli.pc = "sleep"
    /\ cli' = [cli EXCEPT !.pc = "sleeping", !.until = cli.now + cli.t, !.slept = TRUE]
    /\ UNCHANGED <<cfg, draws, call, ret, log, rng, hist, CHANNEL_URL_MAP>>

\* std::thread::sleep returns, at the end of t or later
Wake ==
    /\ cli.pc = "sleeping"
    /\ cli.now >= cli.until
    /\ cli' = [cli EXCEPT !.pc = "print"]
    /\ UNCHANGED <<cfg, draws, call, ret, log, rng, hist, CHANNEL_URL_MAP>>

\* println! of the event, in either format
Println ==
    /\ cli.pc = "print"
    /\ cli' = [cli EXCEPT
                 !.pc = "next",
                 !.printed = Append(@, [event_number |-> cli.event.event_number,
                                        timestamp |-> cli.event.timestamp,
                                        at |-> cli.now,
                                        checked_at |-> cli.checked_at,
                                        slept |-> cli.slept])]
    /\ UNCHANGED <<cfg, draws, call, ret, log, rng, hist, CHANNEL_URL_MAP>>

\* a millisecond passes, wherever the loop is
Tick ==
    /\ cli.now < MaxClock
    /\ cli' = [cli EXCEPT !.now = @ + 1]
    /\ UNCHANGED <<cfg, draws, call, ret, log, rng, hist, CHANNEL_URL_MAP>>

\* a step of the loop itself
LoopStep == IterNext \/ Pace \/ Sleep \/ Wake \/ Println

NextCli ==
    \/ \E type_ \in Types, number \in 1..MaxNumber, offset \in 0..MaxOffset,
          step \in 0..MaxStep, no_wait \in BOOLEAN :
         Start(type_, number, offset, step, no_wait)
    \/ IterNext
    \/ Pace
    \/ Sleep
    \/ Wake
    \/ Println
    \/ Tick

\* the command line
SpecCli == InitWith(CliConfigs, "seeded") /\ [][NextCli]_vars

(***************************************************************************)
(* Properties.                                                             *)
(***************************************************************************)
IsEvent(kind) == call.op = "Event::new" /\ ret.kind = kind

\* the number of event numbers in 0..index whose kind is `kind`
CountUpTo(kind, index) == Cardinality({j \in 0..index : event_type(cfg, j) = kind})

\* the draws made at `at` by the id-seeded generator of the call
DrawsAt(at) == {i \in DOMAIN log : log[i].at = at}

C2_ReferentialBound ==
    /\ IsEvent("Bid") =>
        /\ ret.auction - cfg.first_auction_id
             <= Auction_last_id(call.event_number, cfg) + cfg.auction_id_lead
        /\ ret.bidder - cfg.first_person_id
             <= Person_last_id(call.event_number, cfg) + cfg.person_id_lead
    /\ IsEvent("Auction") =>
        ret.seller - cfg.first_person_id
          <= Person_last_id(call.event_number, cfg) + cfg.person_id_lead

\* C3: the k-th Person event carries the id first_person_id + k and the
\* k-th Auction event the id first_auction_id + k (k counted from 0).
C3_KthId ==
    /\ IsEvent("Person") =>
        ret.id = cfg.first_person_id + CountUpTo("Person", call.event_number) - 1
    /\ IsEvent("Auction") =>
        ret.id = cfg.first_auction_id + CountUpTo("Auction", call.event_number) - 1

\* C4: Person::last_id(index) is epoch * person_proportion + min(index mod
\* proportion_denominator, person_proportion - 1), and that is the number
\* of Person event numbers in 0..index, less one.
C4_PersonLastId ==
    call.op = "Person::last_id" =>
        LET index == call.event_id
            epoch == index \div cfg.proportion_denominator
        IN  /\ ret = epoch * cfg.person_proportion
                       + Min(index % cfg.proportion_denominator, cfg.person_proportion - 1)
            /\ ret = CountUpTo("Person", index) - 1

\* an index past the person sub-range of a later epoch, where the clamp acts
C4_Witness ==
    /\ call.op = "Person::last_id"
    /\ call.event_id >= cfg.proportion_denominator
    /\ call.event_id % cfg.proportion_denominator > cfg.person_proportion
    /\ cfg.person_proportion > 1
    /\ ret = CountUpTo("Person", call.event_id) - 1

\* C5 as stated: for every index >= 0, Auction::last_id(index) is the
\* highest auction id that exists at or before index: the number of Auction
\* event numbers in 0..index, less one.
C5_EveryIndex ==
    call.op = "Auction::last_id" =>
        /\ ret >= 0
        /\ ret = CountUpTo("Auction", call.event_id) - 1

\* C5 amended: the same for every index >= person_proportion, that is from
\* the first Auction event number on; there the result is the id of the
\* auction itself when index is an Auction event number.
C5_FromFirstAuction ==
    (call.op = "Auction::last_id" /\ call.event_id >= cfg.person_proportion) =>
        /\ ret >= 0
        /\ ret = CountUpTo("Auction", call.event_id) - 1
        /\ event_type(cfg, call.event_id) = "Auction" =>
             (call.event_id = 0 \/ ret = CountUpTo("Auction", call.event_id - 1))

\* the previous-epoch case, and the clamp in the bid sub-range
C5_Witness ==
    /\ call.op = "Auction::last_id"
    /\ call.event_id >= cfg.proportion_denominator
    /\ call.event_id % cfg.proportion_denominator < cfg.person_proportion
    /\ cfg.auction_proportion > 1
    /\ ret = CountUpTo("Auction", call.event_id) - 1

\* the look-ahead of Auction::next_length at the event number of the call
Horizon ==
    LET events_for_auctions ==
            (cfg.in_flight_auctions * cfg.proportion_denominator) \div cfg.auction_proportion
    IN  event_timestamp(cfg, call.event_number + events_for_auctions)
          - event_timestamp(cfg, call.event_number)

\* C6: an Auction expires after its date_time: the duration is in
\* 1..2*horizon when horizon >= 1 and is 1 when horizon = 0.
C6_Expires ==
    IsEvent("Auction") =>
        /\ ret.expires > ret.date_time
        /\ IF Horizon >= 1
           THEN ret.expires - ret.date_time \in 1..(2 * Horizon)
           ELSE ret.expires - ret.date_time = 1

\* an Auction of the longest duration its horizon allows
C6_Witness ==
    /\ IsEvent("Auction")
    /\ Horizon >= 1
    /\ ret.expires - ret.date_time = 2 * Horizon

C9_SeparateSource ==
    IsEvent("Auction") => DrawsAt("Auction::next_length") = {}

\* C9 amended: the duration draw is the one draw the id-seeded generator
\* makes between the price draws and the hot-seller draw; it advances the
\* generator by one value.
C9_SameSource ==
    IsEvent("Auction") =>
        /\ Cardinality(DrawsAt("Auction::next_length")) = 1
        /\ \A i \in DrawsAt("Auction::next_length") :
             /\ i > 1 /\ i < Len(log)
             /\ log[i - 1].at = "gen_price"
             /\ log[i + 1].at = "hot_seller"
             /\ log[i].n = 1
             /\ log[i].pos = log[i - 1].pos + 1
             /\ log[i + 1].pos = log[i].pos + 1
             /\ ret.expires = ret.date_time + 1 + log[i].v

\* an Auction whose duration draw came out above zero
C9_Witness ==
    /\ IsEvent("Auction")
    /\ \E i \in DrawsAt("Auction::next_length") : log[i].v > 0 /\ log[i].pos = 122

\* C10: no call of Event::new panics: no unsigned subtraction goes below
\* zero and no empty range is sampled.
C10_NoPanic == call.op = "Event::new" => ret.kind # "Panic"

\* the wall-clock time at which a printed event was due
DueAt(p) == cli.start_time + (p.timestamp - cli.start_ts)

\* C11: the loop prints the events one at a time, in the order the
\* generator yields them; with pacing, none is printed before start_time +
\* (event.timestamp - start_ts), and one whose due time had passed when
\* the clock was read is printed without sleeping; the loop is suspended
\* only inside sleep; with no_wait it never sleeps.
C11_Pacing ==
    LET printed == cli.printed
        yielded == cli.yielded
    IN  /\ Len(printed) <= Len(yielded)
        /\ Len(yielded) <= Len(printed) + 1
        /\ \A i \in DOMAIN printed : printed[i].event_number = yielded[i]
        /\ \A i \in DOMAIN yielded :
              /\ yielded[i] >= cli.opts.offset
              /\ i > 1 => yielded[i] >= yielded[i - 1] + cli.opts.step
        /\ (Len(yielded) > Len(printed))
              <=> cli.pc \in {"pace", "sleep", "sleeping", "print"}
        /\ cli.pc # "panic"
        /\ ~cli.opts.no_wait =>
              \A i \in DOMAIN printed :
                 /\ printed[i].at >= DueAt(printed[i])
                 /\ DueAt(printed[i]) < printed[i].checked_at => ~printed[i].slept
        /\ cli.opts.no_wait =>
              /\ cli.pc \notin {"sleep", "sleeping"}
              /\ ~cli.slept
              /\ \A i \in DOMAIN printed : ~printed[i].slept
        /\ (cli.pc \in {"next", "pace", "sleep", "sleeping", "print"} /\ ~ENABLED LoopStep)
              => (cli.pc = "sleeping" /\ cli.now < cli.until)

\* a paced run that printed one event late, without sleeping, and a later
\* one after sleeping until it was due
C11_Witness ==
    /\ ~cli.opts.no_wait
    /\ \E i \in DOMAIN cli.printed : \E j \in DOMAIN cli.printed :
          /\ i < j
          /\ ~cli.printed[i].slept
          /\ DueAt(cli.printed[i]) < cli.printed[i].checked_at
          /\ cli.printed[j].slept
          /\ cli.printed[j].at >= DueAt(cli.printed[j])
          /\ cli.printed[j].checked_at < DueAt(cli.printed[j])

====
